---- MODULE Spec2Model ----
(***************************************************************************)
(* Session lifecycle of the Steel Browser examples.                        *)
(*                                                                         *)
(*   examples/ai-agent.py    class SteelBrowserSession (create_session,    *)
(*                           get_session_details, release_session) and the *)
(*                           entry points run_ai_agent_task and            *)
(*                           test_basic_connection                         *)
(*   examples/simple-test.py the entry point test_steel_cdp                *)
(*                                                                         *)
(* The session service, the browser library and the agent are external:    *)
(* every answer they can give (an HTTP status with a body, a transport     *)
(* failure, an exception, a cancellation delivered at an await) is a       *)
(* nondeterministic choice.                                                *)
(***************************************************************************)
EXTENDS Integers, Sequences, FiniteSets

VARIABLES
    mode,       \* which caller drives the code: an entry point, or "client"
    pc,         \* position of the entry point ("calls" for the client caller)
    client,     \* the SteelBrowserSession object: session_id, cdp_url, session_data
    local,      \* test_steel_cdp's local variables session_id and session_data
    browser,    \* the local name browser: "unbound", "open" or "closed"
    pending,    \* the exception travelling through a finally block, or NoExc
    result,     \* how the entry point ended: "running", "returned", "raised"
    trace,      \* every request sent and every browser close attempted, in order
    last,       \* record of the latest SteelBrowserSession method call
    prev,       \* record of the call before it
    ncalls,     \* number of SteelBrowserSession method calls made so far
    nextId,     \* the next identifier uuid4 hands out
    created,    \* ids whose creation completed
    released,   \* ids for which a release request was answered with 200
    failed,     \* ids whose creation raised
    cancelled,  \* whether a cancellation was delivered during the run
    caught      \* whether run_ai_agent_task's except clause ran

vars == <<mode, pc, client, local, browser, pending, result, trace, last, prev,
          ncalls, nextId, created, released, failed, cancelled, caught>>

---------------------------------------------------------------------------
(* Bounds *)

\* number of method calls the free caller of SteelBrowserSession makes
MaxCalls == 3

---------------------------------------------------------------------------
(* Values *)

\* self.session_id = None
NoId == 0

\* Python's None where a string is expected
None == "None"

\* a key the JSON object does not hold
Missing == "Missing"

\* the second argument of session_data.get("websocketUrl", ...)
DefaultCdpUrl == "ws://localhost:3000/"

\* a websocket URL as the service hands it out
SvcUrl == "ws://svc/cdp"

\* a viewer URL as the service hands it out
ViewerUrl == "http://svc/view"

\* self.session_data = None
NoData == [kind |-> "none", websocketUrl |-> Missing, sessionViewerUrl |-> Missing]

\* a response body that is not a JSON object
NotJson == [kind |-> "notjson", websocketUrl |-> Missing, sessionViewerUrl |-> Missing]

\* the JSON objects a response can carry: each key absent or present, the
\* websocket URL possibly the empty string
JsonObjects ==
    [kind : {"object"}, websocketUrl : {Missing, "", SvcUrl},
     sessionViewerUrl : {Missing, ViewerUrl}]

\* the failure of requests.post / requests.get itself: timeout, connection error
TransportFailure == [kind |-> "transport", status |-> 0, body |-> NotJson]

\* the response of a call that sent no request
NoResponse == [kind |-> "none", status |-> 0, body |-> NotJson]

\* what one request can be answered with.  The code never reads the body of
\* a 4xx/5xx answer, so those carry one body.
Responses ==
    {TransportFailure}
    \cup [kind : {"http"}, status : {200, 201}, body : JsonObjects \cup {NotJson}]
    \cup [kind : {"http"}, status : {404, 500}, body : {NotJson}]

\* response.raise_for_status(): raises for 4xx and 5xx
RaisesForStatus(resp) == resp.status >= 400 /\ resp.status < 600

\* dict.get(key, default)
Get(value, default) == IF value = Missing THEN default ELSE value

\* SteelBrowserSession(api_url)
NewClient == [session_id |-> NoId, cdp_url |-> None, session_data |-> NoData]

\* the events of the trace
CreateReq(id) == [ev |-> "POST /v1/sessions", id |-> id]
InspectReq(id) == [ev |-> "GET /v1/sessions/{id}", id |-> id]
ReleaseReq(id) == [ev |-> "POST /v1/sessions/{id}/release", id |-> id]
CloseEv == [ev |-> "browser.close", id |-> NoId]

\* what a method call comes to: the object afterwards, whether it returned or
\* raised, what it returned, and the requests it sent
Outcome(c, how, url, details, sent) ==
    [client |-> c, outcome |-> how, url |-> url, details |-> details, sent |-> sent]

---------------------------------------------------------------------------
(* class SteelBrowserSession *)

\* create_session as it would be if it always handed out the default URL
create_session_always_default(c, id, resp) ==
    LET c1 == [c EXCEPT !.session_id = id] IN
    IF resp.kind = "transport" \/ RaisesForStatus(resp) \/ resp.body.kind # "object"
    THEN Outcome(c1, "raise", None, NoData, <<CreateReq(id)>>)
    ELSE LET c2 == [c1 EXCEPT !.session_data = resp.body, !.cdp_url = DefaultCdpUrl]
         IN Outcome(c2, "return", c2.cdp_url, NoData, <<CreateReq(id)>>)

\* create_session: the id is stored first, then the request is sent
create_session(c, id, resp) ==
    LET c1 == [c EXCEPT !.session_id = id] IN
    IF resp.kind = "transport"
    THEN Outcome(c1, "raise", None, NoData, <<CreateReq(id)>>)     \* requests.post raises
    ELSE IF RaisesForStatus(resp)
    THEN Outcome(c1, "raise", None, NoData, <<CreateReq(id)>>)     \* raise_for_status
    ELSE IF resp.body.kind # "object"
    THEN Outcome(c1, "raise", None, NoData, <<CreateReq(id)>>)     \* response.json()
    ELSE LET c2 == [c1 EXCEPT !.session_data = resp.body,
                              !.cdp_url = Get(resp.body.websocketUrl, DefaultCdpUrl)]
         IN Outcome(c2, "return", c2.cdp_url, NoData, <<CreateReq(id)>>)

\* get_session_details: no try block around the request
get_session_details(c, resp) ==
    IF resp.kind = "transport"
    THEN Outcome(c, "raise", None, NoData, <<InspectReq(c.session_id)>>)
    ELSE IF resp.status = 200
    THEN IF resp.body.kind # "object"
         THEN Outcome(c, "raise", None, NoData, <<InspectReq(c.session_id)>>)
         ELSE Outcome(c, "return", None, resp.body, <<InspectReq(c.session_id)>>)
    ELSE Outcome(c, "return", None, NoData, <<InspectReq(c.session_id)>>)

\* release_session as it would be without its try/except
release_session_no_try(c, resp) ==
    IF c.session_id = NoId
    THEN Outcome(c, "return", None, NoData, <<>>)
    ELSE Outcome(c, IF resp.kind = "transport" THEN "raise" ELSE "return",
                 None, NoData, <<ReleaseReq(c.session_id)>>)

\* release_session as it would be without its guard on session_id
release_session_no_guard(c, resp) ==
    Outcome(c, "return", None, NoData, <<ReleaseReq(c.session_id)>>)

\* release_session as it would be if it forgot the id after a 200
release_session_forgets_id(c, resp) ==
    IF c.session_id = NoId
    THEN Outcome(c, "return", None, NoData, <<>>)
    ELSE Outcome(IF resp.kind = "http" /\ resp.status = 200
                 THEN [c EXCEPT !.session_id = NoId] ELSE c,
                 "return", None, NoData, <<ReleaseReq(c.session_id)>>)

\* release_session: nothing without an id; otherwise one request, every
\* answer and every exception of it logged, none re-raised, no field changed
release_session(c, resp) ==
    IF c.session_id = NoId
    THEN Outcome(c, "return", None, NoData, <<>>)
    ELSE Outcome(c, "return", None, NoData, <<ReleaseReq(c.session_id)>>)

\* the record kept of a method call
Call(op, before, resp, r) ==
    [op |-> op, before |-> before,
     resp |-> IF r.sent = <<>> THEN NoResponse ELSE resp, after |-> r.client,
     outcome |-> r.outcome, url |-> r.url, details |-> r.details, sent |-> r.sent]

\* no call yet
NoCall ==
    [op |-> "none", before |-> NewClient, resp |-> NoResponse, after |-> NewClient,
     outcome |-> "return", url |-> None, details |-> NoData, sent |-> <<>>]

\* the service released the session: the answer the code logs as a success
ReleasedBy(r, resp) ==
    IF r.sent # <<>> /\ resp.kind = "http" /\ resp.status = 200
    THEN {r.sent[1].id} ELSE {}

---------------------------------------------------------------------------
(* Exceptions *)

NoExc == "none"
Cancelled == "CancelledError"

\* what an awaited call of a collaborator can do
AwaitOutcomes == {"ok", "raise", "cancel"}

\* what asyncio.sleep can do
SleepOutcomes == {"ok", "cancel"}

\* what a constructor of a collaborator can do
CallOutcomes == {"ok", "raise"}

---------------------------------------------------------------------------
Init ==
    /\ mode \in {"client", "run_ai_agent_task", "test_basic_connection", "test_steel_cdp"}
    /\ pc = IF mode = "client" THEN "calls" ELSE "create"
    /\ client = NewClient
    /\ local = [session_id |-> NoId, session_data |-> NoData]
    /\ browser = "unbound"
    /\ pending = NoExc
    /\ result = "running"
    /\ trace = <<>>
    /\ last = NoCall
    /\ prev = NoCall
    /\ ncalls = 0
    /\ nextId = 1
    /\ created = {}
    /\ released = {}
    /\ failed = {}
    /\ cancelled = FALSE
    /\ caught = FALSE

\* a method call of the object: its effect on the object, the trace and the records
Method(op, r, resp) ==
    /\ client' = r.client
    /\ trace' = trace \o r.sent
    /\ prev' = last
    /\ last' = Call(op, client, resp, r)
    /\ ncalls' = ncalls + 1

---------------------------------------------------------------------------
(* A caller that uses the class freely *)

ClientCreate ==
    /\ mode = "client" /\ ncalls < MaxCalls
    /\ \E resp \in Responses :
         LET r == create_session(client, nextId, resp) IN
         /\ Method("create_session", r, resp)
         /\ created' = IF r.outcome = "return" THEN created \cup {nextId} ELSE created
         /\ failed' = IF r.outcome = "raise" THEN failed \cup {nextId} ELSE failed
    /\ nextId' = nextId + 1
    /\ UNCHANGED <<mode, pc, local, browser, pending, result, released, cancelled, caught>>

ClientDetails ==
    /\ mode = "client" /\ ncalls < MaxCalls
    /\ \E resp \in Responses :
         Method("get_session_details", get_session_details(client, resp), resp)
    /\ UNCHANGED <<mode, pc, local, browser, pending, result, nextId, created,
                   released, failed, cancelled, caught>>

ClientRelease ==
    /\ mode = "client" /\ ncalls < MaxCalls
    /\ \E resp \in Responses :
         LET r == release_session(client, resp) IN
         /\ Method("release_session", r, resp)
         /\ released' = released \cup ReleasedBy(r, resp)
    /\ UNCHANGED <<mode, pc, local, browser, pending, result, nextId, created,
                   failed, cancelled, caught>>

---------------------------------------------------------------------------
(* async def run_ai_agent_task *)

\* a step of the try block fails: an Exception is caught by the except clause
\* and logged, a cancellation (not an Exception) stays pending; the finally
\* block is next either way
TryStepFails(out) ==
    /\ pc' = "finally_close"
    /\ pending' = IF out = "cancel" THEN Cancelled ELSE NoExc
    /\ cancelled' = (cancelled \/ out = "cancel")
    /\ caught' = (caught \/ out = "raise")

\* cdp_url = steel_session.create_session(), inside the try block
AgentCreate ==
    /\ mode = "run_ai_agent_task" /\ pc = "create"
    /\ \E resp \in Responses :
         LET r == create_session(client, nextId, resp) IN
         /\ Method("create_session", r, resp)
         /\ created' = IF r.outcome = "return" THEN created \cup {nextId} ELSE created
         /\ failed' = IF r.outcome = "raise" THEN failed \cup {nextId} ELSE failed
         /\ IF r.outcome = "return"
            THEN pc' = "new_browser" /\ UNCHANGED <<pending, cancelled, caught>>
            ELSE TryStepFails("raise")
    /\ nextId' = nextId + 1
    /\ UNCHANGED <<mode, local, browser, result, released>>

\* browser = Browser(config=BrowserConfig(...))
AgentNewBrowser ==
    /\ mode = "run_ai_agent_task" /\ pc = "new_browser"
    /\ \E out \in CallOutcomes :
         IF out = "ok"
         THEN browser' = "open" /\ pc' = "new_agent" /\ UNCHANGED <<pending, cancelled, caught>>
         ELSE browser' = browser /\ TryStepFails(out)
    /\ UNCHANGED <<mode, client, local, result, trace, last, prev, ncalls, nextId,
                   created, released, failed>>

\* agent = Agent(task=..., llm=ChatAnthropic(...), browser=browser)
AgentNewAgent ==
    /\ mode = "run_ai_agent_task" /\ pc = "new_agent"
    /\ \E out \in CallOutcomes :
         IF out = "ok"
         THEN pc' = "agent_run" /\ UNCHANGED <<pending, cancelled, caught>>
         ELSE TryStepFails(out)
    /\ UNCHANGED <<mode, client, local, browser, result, trace, last, prev, ncalls,
                   nextId, created, released, failed>>

\* result = await agent.run()
AgentRun ==
    /\ mode = "run_ai_agent_task" /\ pc = "agent_run"
    /\ \E out \in AwaitOutcomes :
         IF out = "ok"
         THEN pc' = "details" /\ UNCHANGED <<pending, cancelled, caught>>
         ELSE TryStepFails(out)
    /\ UNCHANGED <<mode, client, local, browser, result, trace, last, prev, ncalls,
                   nextId, created, released, failed>>

\* session_details = steel_session.get_session_details()
AgentDetails ==
    /\ mode = "run_ai_agent_task" /\ pc = "details"
    /\ \E resp \in Responses :
         LET r == get_session_details(client, resp) IN
         /\ Method("get_session_details", r, resp)
         /\ IF r.outcome = "return"
            THEN pc' = "sleep" /\ UNCHANGED <<pending, cancelled, caught>>
            ELSE TryStepFails("raise")
    /\ UNCHANGED <<mode, local, browser, result, nextId, created, released,
                   failed>>

\* await asyncio.sleep(5)
AgentSleep ==
    /\ mode = "run_ai_agent_task" /\ pc = "sleep"
    /\ \E out \in SleepOutcomes :
         IF out = "ok"
         THEN pc' = "finally_close" /\ UNCHANGED <<pending, cancelled, caught>>
         ELSE TryStepFails(out)
    /\ UNCHANGED <<mode, client, local, browser, result, trace, last, prev, ncalls,
                   nextId, created, released, failed>>

\* the inner try of the finally block as it would be without its except clause
AfterCloseNoExcept(pend, out) ==
    IF out = "ok"
    THEN [pc |-> "release", pending |-> pend]
    ELSE [pc |-> "done", pending |-> IF out = "cancel" THEN Cancelled ELSE "Exception"]

\* where the inner try of the finally block leaves the run: an Exception of
\* browser.close() is caught and logged, a cancellation of the await is not
AfterClose(pend, out) ==
    IF out = "cancel"
    THEN [pc |-> "done", pending |-> Cancelled]
    ELSE [pc |-> "release", pending |-> pend]

\* finally: try: await browser.close() except Exception: log.  The name
\* browser is unbound when Browser(...) was never reached or raised: the
\* statement then raises UnboundLocalError, an Exception.
AgentClose ==
    /\ mode = "run_ai_agent_task" /\ pc = "finally_close"
    /\ \E out \in (IF browser = "unbound" THEN {"raise"} ELSE AwaitOutcomes) :
         LET a == AfterClose(pending, out) IN
         /\ pc' = a.pc
         /\ pending' = a.pending
         /\ cancelled' = (cancelled \/ out = "cancel")
         /\ browser' = IF out = "ok" THEN "closed" ELSE browser
         /\ result' = IF a.pc = "done" THEN "raised" ELSE result
    /\ trace' = Append(trace, CloseEv)
    /\ UNCHANGED <<mode, client, local, last, prev, ncalls, nextId, created,
                   released, failed, caught>>

\* finally: steel_session.release_session(); then the pending exception, if
\* any, is re-raised, otherwise the function prints and returns
AgentRelease ==
    /\ mode = "run_ai_agent_task" /\ pc = "release"
    /\ \E resp \in Responses :
         LET r == release_session(client, resp) IN
         /\ Method("release_session", r, resp)
         /\ released' = released \cup ReleasedBy(r, resp)
         /\ result' = IF r.outcome = "raise" \/ pending # NoExc
                      THEN "raised" ELSE "returned"
    /\ pc' = "done"
    /\ UNCHANGED <<mode, local, browser, pending, nextId, created, failed,
                   cancelled, caught>>

---------------------------------------------------------------------------
(* async def test_basic_connection *)

\* cdp_url = steel_session.create_session(), outside any try block
BasicCreate ==
    /\ mode = "test_basic_connection" /\ pc = "create"
    /\ \E resp \in Responses :
         LET r == create_session(client, nextId, resp) IN
         /\ Method("create_session", r, resp)
         /\ created' = IF r.outcome = "return" THEN created \cup {nextId} ELSE created
         /\ failed' = IF r.outcome = "raise" THEN failed \cup {nextId} ELSE failed
         /\ pc' = IF r.outcome = "return" THEN "sleep" ELSE "done"
         /\ result' = IF r.outcome = "return" THEN result ELSE "raised"
         /\ pending' = IF r.outcome = "return" THEN pending ELSE "Exception"
    /\ nextId' = nextId + 1
    /\ UNCHANGED <<mode, local, browser, released, cancelled, caught>>

\* await asyncio.sleep(30)
BasicSleep ==
    /\ mode = "test_basic_connection" /\ pc = "sleep"
    /\ \E out \in SleepOutcomes :
         /\ pc' = IF out = "ok" THEN "release" ELSE "done"
         /\ result' = IF out = "ok" THEN result ELSE "raised"
         /\ pending' = IF out = "ok" THEN pending ELSE Cancelled
         /\ cancelled' = (cancelled \/ out = "cancel")
    /\ UNCHANGED <<mode, client, local, browser, trace, last, prev, ncalls, nextId,
                   created, released, failed, caught>>

\* steel_session.release_session()
BasicRelease ==
    /\ mode = "test_basic_connection" /\ pc = "release"
    /\ \E resp \in Responses :
         LET r == release_session(client, resp) IN
         /\ Method("release_session", r, resp)
         /\ released' = released \cup ReleasedBy(r, resp)
         /\ result' = IF r.outcome = "raise" THEN "raised" ELSE "returned"
         /\ pending' = IF r.outcome = "raise" THEN "Exception" ELSE pending
    /\ pc' = "done"
    /\ UNCHANGED <<mode, local, browser, nextId, created, failed, cancelled, caught>>

---------------------------------------------------------------------------
(* async def test_steel_cdp *)

\* a step of test_steel_cdp fails: nothing catches it, the function raises
CdpStepFails(out) ==
    /\ pc' = "done"
    /\ result' = "raised"
    /\ pending' = IF out = "cancel" THEN Cancelled ELSE "Exception"
    /\ cancelled' = (cancelled \/ out = "cancel")

\* session_id = str(uuid.uuid4()); requests.post; raise_for_status;
\* response.json(); the two prints that index session_data
CdpCreate ==
    /\ mode = "test_steel_cdp" /\ pc = "create"
    /\ \E resp \in Responses :
         LET ok == /\ resp.kind = "http"
                   /\ ~RaisesForStatus(resp)
                   /\ resp.body.kind = "object"
                   /\ resp.body.websocketUrl # Missing
                   /\ resp.body.sessionViewerUrl # Missing
             parsed == resp.kind = "http" /\ ~RaisesForStatus(resp)
                       /\ resp.body.kind = "object"
         IN
         /\ local' = [session_id |-> nextId,
                      session_data |-> IF parsed THEN resp.body ELSE NoData]
         /\ created' = IF ok THEN created \cup {nextId} ELSE created
         /\ failed' = IF ok THEN failed ELSE failed \cup {nextId}
         /\ IF ok
            THEN pc' = "connect" /\ UNCHANGED <<result, pending, cancelled>>
            ELSE CdpStepFails("raise")
    /\ trace' = Append(trace, CreateReq(nextId))
    /\ nextId' = nextId + 1
    /\ UNCHANGED <<mode, client, browser, last, prev, ncalls, released, caught>>

\* async with async_playwright() as p: browser = await p.chromium.connect_over_cdp(...)
CdpConnect ==
    /\ mode = "test_steel_cdp" /\ pc = "connect"
    /\ \E out \in AwaitOutcomes :
         IF out = "ok"
         THEN browser' = "open" /\ pc' = "page"
              /\ UNCHANGED <<result, pending, cancelled>>
         ELSE browser' = browser /\ CdpStepFails(out)
    /\ UNCHANGED <<mode, client, local, trace, last, prev, ncalls, nextId, created,
                   released, failed, caught>>

\* the page: contexts, new_context, new_page, goto, screenshot, title
CdpPage ==
    /\ mode = "test_steel_cdp" /\ pc = "page"
    /\ \E out \in AwaitOutcomes :
         IF out = "ok"
         THEN pc' = "sleep" /\ UNCHANGED <<result, pending, cancelled>>
         ELSE CdpStepFails(out)
    /\ UNCHANGED <<mode, client, local, browser, trace, last, prev, ncalls, nextId,
                   created, released, failed, caught>>

\* await asyncio.sleep(10)
CdpSleep ==
    /\ mode = "test_steel_cdp" /\ pc = "sleep"
    /\ \E out \in SleepOutcomes :
         IF out = "ok"
         THEN pc' = "close" /\ UNCHANGED <<result, pending, cancelled>>
         ELSE CdpStepFails(out)
    /\ UNCHANGED <<mode, client, local, browser, trace, last, prev, ncalls, nextId,
                   created, released, failed, caught>>

\* await browser.close(), the last statement of the async with block
CdpClose ==
    /\ mode = "test_steel_cdp" /\ pc = "close"
    /\ \E out \in AwaitOutcomes :
         IF out = "ok"
         THEN browser' = "closed" /\ pc' = "release"
              /\ UNCHANGED <<result, pending, cancelled>>
         ELSE browser' = browser /\ CdpStepFails(out)
    /\ trace' = Append(trace, CloseEv)
    /\ UNCHANGED <<mode, client, local, last, prev, ncalls, nextId, created,
                   released, failed, caught>>

\* requests.post(f"{api_url}/v1/sessions/{session_id}/release"): no try block,
\* no timeout, the status is not looked at
CdpRelease ==
    /\ mode = "test_steel_cdp" /\ pc = "release"
    /\ \E resp \in Responses :
         /\ released' = IF resp.kind = "http" /\ resp.status = 200
                        THEN released \cup {local.session_id} ELSE released
         /\ result' = IF resp.kind = "transport" THEN "raised" ELSE "returned"
         /\ pending' = IF resp.kind = "transport" THEN "Exception" ELSE pending
    /\ trace' = Append(trace, ReleaseReq(local.session_id))
    /\ pc' = "done"
    /\ UNCHANGED <<mode, client, local, browser, last, prev, ncalls, nextId, created,
                   failed, cancelled, caught>>

---------------------------------------------------------------------------
Next ==
    \/ ClientCreate
    \/ ClientDetails
    \/ ClientRelease
    \/ AgentCreate
    \/ AgentNewBrowser
    \/ AgentNewAgent
    \/ AgentRun
    \/ AgentDetails
    \/ AgentSleep
    \/ AgentClose
    \/ AgentRelease
    \/ BasicCreate
    \/ BasicSleep
    \/ BasicRelease
    \/ CdpCreate
    \/ CdpConnect
    \/ CdpPage
    \/ CdpSleep
    \/ CdpClose
    \/ CdpRelease

Spec == Init /\ [][Next]_vars

---------------------------------------------------------------------------
(* Properties *)

EntryPoints == {"run_ai_agent_task", "test_basic_connection", "test_steel_cdp"}

\* the answer was an HTTP response with a 2xx status
Is2xx(resp) == resp.kind = "http" /\ resp.status >= 200 /\ resp.status < 300

\* the answer was an HTTP response with status 200
Is200(resp) == resp.kind = "http" /\ resp.status = 200

\* the release requests of the trace
ReleasesIn(t) == {i \in 1..Len(t) : t[i].ev = ReleaseReq(NoId).ev}

\* the browser closes attempted in the trace
ClosesIn(t) == {i \in 1..Len(t) : t[i] = CloseEv}

\* the lifecycle state of a session id, as a rank: 0 Uncreated, 1 Active
\* (its creation completed), 2 Released (it was Active and a release request
\* for it was answered 200).  An id whose creation failed stays Uncreated.
Rank(id) ==
    IF id \in created /\ id \in released THEN 2
    ELSE IF id \in created THEN 1
    ELSE 0

\* the step is a call of release_session
ReleaseCallStep == ncalls' = ncalls + 1 /\ last'.op = "release_session"

\* C1: in every entry point, a failed creation is never followed by a
\* release request for that session.
C1_NoReleaseAfterFailedCreate ==
    mode \in EntryPoints =>
        \A i \in ReleasesIn(trace) : trace[i].id \notin failed

\* C2: once an entry point has created its session, it does not end without
\* having sent a release request for that session id, however it ends.
C2_ReleaseOnEveryExit ==
    (mode \in EntryPoints /\ pc = "done") =>
        \A id \in created : \E i \in ReleasesIn(trace) : trace[i].id = id

\* C3: get_session_details never raises; it returns the detail object exactly
\* when the answer is HTTP 200 and None for every other answer, transport
\* failures included.
C3_DetailsNeverRaises ==
    last.op = "get_session_details" =>
        /\ last.outcome = "return"
        /\ (last.details # NoData) <=> Is200(last.resp)

\* C4: release_session returns normally whatever the service answers, also
\* when it is called again and again on the same session; and an entry point
\* of ai-agent.py whose last step is release_session does not raise because of it.
C4_ReleaseNeverRaises ==
    /\ last.op = "release_session" => last.outcome = "return"
    /\ (mode = "test_basic_connection" /\ pc = "done" /\ last.op = "release_session")
           => result = "returned"

\* C4 witness: release_session called twice in a row on one session, the
\* first answered 200, the second answered 404 by the service that has
\* discarded the session, and the second call returned.
C4_SecondReleaseRefused ==
    /\ last.op = "release_session" /\ prev.op = "release_session"
    /\ prev.sent # <<>> /\ last.sent = prev.sent
    /\ Is200(prev.resp)
    /\ last.resp.kind = "http" /\ last.resp.status = 404
    /\ last.outcome = "return"

\* C5: release_session on an object whose session_id is absent sends no
\* request and changes no field of the object.
C5_ReleaseUncreatedIsNoOp ==
    [][(ReleaseCallStep /\ client.session_id = NoId) =>
          /\ trace' = trace
          /\ client' = client
          /\ last'.sent = <<>>
          /\ last'.outcome = "return"]_vars

\* C5 witness: release_session was the first call on a new object.
C5_ReleaseBeforeAnyCreate ==
    /\ mode = "client" /\ ncalls = 1 /\ nextId = 1
    /\ last.op = "release_session" /\ last.before = NewClient
    /\ trace = <<>>

\* C6 as stated: for every successful answer to the creation request
\* create_session returns a non-empty endpoint equal to the websocket URL of
\* that answer, and the session is Active.
C6_EndpointIsServiceUrl ==
    (last.op = "create_session" /\ Is2xx(last.resp) /\ last.resp.body.kind = "object") =>
        /\ last.outcome = "return"
        /\ Rank(last.after.session_id) = 1
        /\ last.url = last.resp.body.websocketUrl
        /\ last.url # ""

\* C6 amended: for every 2xx answer whose body is a JSON object create_session
\* returns, the session is Active and the object holds the returned endpoint;
\* the endpoint is the answer's websocketUrl when the answer has that key
\* (so non-empty when the service's URL is) and ws://localhost:3000/ when the
\* answer omits it.
C6_EndpointIsServiceUrlOrDefault ==
    (last.op = "create_session" /\ Is2xx(last.resp) /\ last.resp.body.kind = "object") =>
        /\ last.outcome = "return"
        /\ last.after.session_id = last.sent[1].id
        /\ Rank(last.after.session_id) = 1
        /\ last.after.cdp_url = last.url
        /\ last.after.session_data = last.resp.body
        /\ last.url = IF last.resp.body.websocketUrl = Missing
                      THEN DefaultCdpUrl
                      ELSE last.resp.body.websocketUrl
        /\ last.resp.body.websocketUrl \notin {Missing, ""} => last.url # ""

\* C6 witness: a creation answered 201 with a websocket URL, returned as is.
C6_CreatedWithServiceUrl ==
    /\ last.op = "create_session" /\ last.resp.kind = "http" /\ last.resp.status = 201
    /\ last.resp.body.websocketUrl = SvcUrl
    /\ last.outcome = "return" /\ last.url = SvcUrl
    /\ client.cdp_url = SvcUrl

\* C7: a creation answered with a 4xx/5xx status raises and leaves the object
\* as it was: no endpoint, and no session id that release_session would take
\* for a created session.
C7_FailedCreateLeavesUncreated ==
    (last.op = "create_session" /\ last.resp.kind = "http" /\ RaisesForStatus(last.resp)) =>
        /\ last.outcome = "raise"
        /\ last.after.cdp_url = None
        /\ last.after.session_id = last.before.session_id

\* C8: when create_session raises inside run_ai_agent_task or
\* test_basic_connection, the entry point raises to its caller.
C8_CreationFailurePropagates ==
    (mode \in {"run_ai_agent_task", "test_basic_connection"} /\ pc = "done"
       /\ failed # {}) => result = "raised"

\* C9: in run_ai_agent_task, when a step after the creation of the session
\* raised an exception and the except clause caught it (and the run was not
\* cancelled), the function returns normally, having attempted one browser
\* close and then sent exactly one release request for the session, the
\* release being sent whether or not the close failed.
C9_CleanupAfterAgentFailure ==
    (mode = "run_ai_agent_task" /\ pc = "done" /\ caught /\ ~cancelled
       /\ created # {}) =>
        /\ result = "returned"
        /\ Len(trace) >= 2
        /\ trace[Len(trace) - 1] = CloseEv
        /\ trace[Len(trace)] = ReleaseReq(client.session_id)
        /\ client.session_id \in created
        /\ Cardinality(ReleasesIn(trace)) = 1
        /\ Cardinality(ClosesIn(trace)) = 1

\* C9 witness: the agent failed before any session detail was asked for, the
\* browser close failed too (the browser is still open), and the run ended.
C9_AgentAndCloseFailed ==
    /\ mode = "run_ai_agent_task" /\ pc = "done" /\ caught /\ ~cancelled
    /\ created # {} /\ browser = "open"
    /\ prev.op = "create_session" /\ last.op = "release_session"
    /\ result = "returned"

\* C10 as stated: the lifecycle of a session id only moves Uncreated ->
\* Active -> Released, and release_session on a session already released
\* sends no request and changes no state.
C10_SecondReleaseSendsNothing ==
    [][/\ \A id \in 1..nextId :
              Rank(id)' = Rank(id) \/ Rank(id)' = Rank(id) + 1
       /\ (ReleaseCallStep /\ Rank(client.session_id) = 2) =>
              trace' = trace /\ client' = client]_vars

\* C10 amended: the lifecycle of a session id only moves Uncreated ->
\* Active -> Released, and release_session changes no field of the object;
\* on a session already Released it returns normally after sending one more
\* release request for the same id.
C10_SecondReleaseSendsAgain ==
    [][/\ \A id \in 1..nextId :
              Rank(id)' = Rank(id) \/ Rank(id)' = Rank(id) + 1
       /\ ReleaseCallStep => client' = client
       /\ (ReleaseCallStep /\ Rank(client.session_id) = 2) =>
              /\ trace' = Append(trace, ReleaseReq(client.session_id))
              /\ last'.outcome = "return"]_vars

\* C10 witness: two release_session calls in a row on one session, both
\* answered 200, both sent.
C10_ReleasedTwice ==
    /\ last.op = "release_session" /\ prev.op = "release_session"
    /\ Is200(prev.resp) /\ Is200(last.resp)
    /\ last.sent = <<ReleaseReq(client.session_id)>>
    /\ prev.sent = last.sent
    /\ Rank(client.session_id) = 2

====
